---- MODULE Spec2Model ----
(***************************************************************************)
(* Model of the AstraDB adapter of VectorDBBench                           *)
(* (vectordb_bench/backend/clients/astradb/astradb.py).                    *)
(*                                                                         *)
(* The adapter object (its attributes session, _insert, _select), the      *)
(* sessions it opens, the scopes of init() that are active, and the        *)
(* backend keyspace (table, index, rows) are the state.  Every public      *)
(* operation of the adapter is one action.  The Cassandra driver and the   *)
(* backend are the environment: what they answer is drawn with \E, what    *)
(* the driver's execute_concurrent does with its arguments is computed.    *)
(***************************************************************************)
EXTENDS Integers, Sequences, FiniteSets, TLC

(* ------------------------------ bounds --------------------------------- *)
\* sessions (cluster.connect() calls that succeed) in one behaviour
MaxSessions == 3
\* rows of the identifier list / the vector list of one insert batch
MaxBatch == 2
\* largest row limit k of a search
MaxK == 2

(* ------------------------- program constants --------------------------- *)
\* concurrency=16 of both execute_concurrent calls
concurrency == 16

VARIABLES
    tables,      \* backend: names of the tables of the keyspace
    indexes,     \* backend: names of the indexes of the keyspace
    rows,        \* backend: ids of the rows stored in the table
    openS,       \* sessions that are connected and not shut down
    adminS,      \* sessions opened by __init__ (the administrative ones)
    nextSid,     \* identity of the next session cluster.connect() returns
    adapter,     \* "none": no instance; "ready": __init__ returned one
    session,     \* self.session  (0: the attribute does not exist)
    _insert,     \* self._insert  (0: no attribute; n: prepared on session n)
    _select,     \* self._select  (0: no attribute; n: prepared on session n)
    scopes,      \* active init() scopes, innermost last: the session each opened
    exitedS,     \* sessions opened by an init() entry whose scope has been left
    nested,      \* init() was entered while another scope was active
    ret          \* how the last operation ended

vars == <<tables, indexes, rows, openS, adminS, nextSid, adapter, session,
          _insert, _select, scopes, exitedS, nested, ret>>

backend == <<tables, indexes, rows>>
fields == <<session, _insert, _select>>

(* ------------------------------ values --------------------------------- *)
\* collection_name and the index name the templates derive from it
table == "astradb_collection"
table_index == "astradb_collection_index"

NoError == [type |-> "None", row |-> 0]
Err(t, i) == [type |-> t, row |-> i]

\* The outcome of an operation.  kind: "return" or "raise".  The other
\* fields are the returned values and what the call did on its way:
\*   count, error   the pair insert_embeddings returns / the error raised
\*   ids            the list search_embedding returns
\*   n, m           lengths of the identifier list and of the vector list
\*   inScope        an init() scope was active when the call was made
\*   submitted      statements the call sent to the backend
\*   accepted       rows of the batch the backend stored
\*   dispatched, collected, inflight
\*                  rows handed to execute_async, results in the results
\*                  queue, requests sent and not completed, when the call ended
\*   failed, timedOut
\*                  rows whose execution failed / failed by timing out
\*   failure        the error of the failed row with the lowest batch
\*                  position / the error met by a search (NoError: none)
\*   outOfOrder     the requests completed in another order than dispatched
\*   envOk, answer  the backend is able to answer the query, and the ids of
\*                  the rows of its answer, in its ranking order
\*   flag, existed  drop_old of a construction, and whether the table
\*                  existed when it started
\*   issued         the provisioning statements a construction handed to
\*                  session.execute, in order (the failed one included)
\*   hadRows        the rows the table held when a construction started
\*   connects       cluster.connect() calls the operation made
\*   prepares       the statements the operation handed to session.prepare
\*   peak, sent     the largest number of requests of the call that were
\*                  in flight at one moment, and the batch positions of
\*                  the rows in the order they were handed to execute_async
\*   filters        the filters argument of a search
\*   handed         the second argument of the execute_concurrent call of a
\*                  search, as a sequence of its items
NoRet ==
    [op |-> "none", kind |-> "none", count |-> 0, error |-> NoError,
     ids |-> <<>>, n |-> 0, m |-> 0, inScope |-> FALSE, submitted |-> 0,
     accepted |-> 0, dispatched |-> 0, collected |-> 0, inflight |-> 0,
     failed |-> 0, timedOut |-> 0, failure |-> NoError, outOfOrder |-> FALSE,
     envOk |-> FALSE, answer |-> <<>>, flag |-> FALSE, existed |-> FALSE,
     issued |-> <<>>, hadRows |-> {}, connects |-> 0, prepares |-> <<>>,
     filters |-> "none", handed |-> <<>>, peak |-> 0, sent |-> <<>>]

(* ------------------------- backend: DDL -------------------------------- *)
\* The four provisioning statements.  guarded: the statement carries
\* IF EXISTS / IF NOT EXISTS.
DROP_TABLE_TEMPLATE == [stmt |-> "drop_table", guarded |-> TRUE]
\* DROP INDEX without IF EXISTS
DROP_INDEX_unguarded == [stmt |-> "drop_index", guarded |-> FALSE]
DROP_INDEX_TEMPLATE == [stmt |-> "drop_index", guarded |-> TRUE]
\* CREATE TABLE without IF NOT EXISTS
CREATE_TABLE_unguarded == [stmt |-> "create_table", guarded |-> FALSE]
CREATE_TABLE_TEMPLATE == [stmt |-> "create_table", guarded |-> TRUE]
CREATE_INDEX_TEMPLATE == [stmt |-> "create_index", guarded |-> TRUE]

\* The keyspace as one value, for the operators that transform it, with
\* the error of the statement that failed and the statements issued so far.
Db(t, i, r) ==
    [tables |-> t, indexes |-> i, rows |-> r, err |-> NoError, issued |-> <<>>]

\* The backend executing one DDL statement on keyspace db.  Dropping a
\* table drops its rows and its index with it.  An unguarded statement on a
\* missing / existing object is an error and changes nothing.
ExecDDL(st, db) ==
    CASE st.stmt = "drop_table" ->
           IF table \in db.tables
           THEN [db EXCEPT !.tables = @ \ {table}, !.indexes = @ \ {table_index},
                           !.rows = {}]
           ELSE IF st.guarded THEN db
                ELSE [db EXCEPT !.err = Err("NotFound", 0)]
      [] st.stmt = "drop_index" ->
           IF table_index \in db.indexes
           THEN [db EXCEPT !.indexes = @ \ {table_index}]
           ELSE IF st.guarded THEN db
                ELSE [db EXCEPT !.err = Err("NotFound", 0)]
      [] st.stmt = "create_table" ->
           IF table \notin db.tables
           THEN [db EXCEPT !.tables = @ \cup {table}]
           ELSE IF st.guarded THEN db
                ELSE [db EXCEPT !.err = Err("AlreadyExists", 0)]
      [] st.stmt = "create_index" ->
           IF table \notin db.tables
           THEN [db EXCEPT !.err = Err("NotFound", 0)]
           ELSE IF table_index \notin db.indexes
           THEN [db EXCEPT !.indexes = @ \cup {table_index}]
           ELSE IF st.guarded THEN db
                ELSE [db EXCEPT !.err = Err("AlreadyExists", 0)]

(* ------------------------- __init__ ------------------------------------ *)
\* The statements __init__ executes, in order.
ProvisioningStatements(drop_old) ==
    (IF drop_old THEN <<DROP_TABLE_TEMPLATE, DROP_INDEX_TEMPLATE>> ELSE <<>>)
    \o <<CREATE_TABLE_TEMPLATE, CREATE_INDEX_TEMPLATE>>

\* an exception of session.execute that is swallowed
Raised_never(d) == FALSE
\* session.execute raised: the exception leaves __init__ at that line.
Raised(d) == d.err # NoError

\* session.execute of statement st, the j-th: the environment makes it fail
\* (fail) or the backend executes it.
Execute(st, j, fail, db) ==
    IF fail THEN [db EXCEPT !.err = Err("Unavailable", j),
                            !.issued = Append(@, st.stmt)]
    ELSE [ExecDDL(st, db) EXCEPT !.issued = Append(@, st.stmt)]

\* session.execute of the statements sts from position j on.  failAt is the
\* position at which the environment makes the execution fail (0: nowhere).
\* The first error ends the run: later statements are not executed.
RECURSIVE RunProvisioning(_, _, _, _), RunFrom(_, _, _, _)
RunProvisioning(sts, j, failAt, db) ==
    IF j > Len(sts) THEN db
    ELSE RunFrom(sts, j, failAt, Execute(sts[j], j, j = failAt, db))

\* d: the keyspace after statement j
RunFrom(sts, j, failAt, d) ==
    IF Raised(d) THEN d ELSE RunProvisioning(sts, j + 1, failAt, d)

\* AstraDB(dim, db_config, db_case_config, collection_name, drop_old).
\* how: "connect_fail" (cluster.connect raises), "keyspace_fail"
\* (set_keyspace raises) or "run".  A new instance has no session, _insert
\* or _select attribute.  session.shutdown() is the last statement: an
\* exception before it leaves the administrative session open.
Construct(drop_old, how, failAt) ==
    /\ scopes = <<>>
    /\ ret = NoRet
    /\ IF how = "connect_fail"
       THEN /\ failAt = 0
            /\ adapter' = "none"
            /\ ret' = [NoRet EXCEPT !.op = "construct", !.kind = "raise",
                                    !.error = Err("NoHostAvailable", 0),
                                    !.failure = Err("NoHostAvailable", 0)]
            /\ UNCHANGED <<backend, openS, adminS, nextSid>>
       ELSE /\ nextSid <= MaxSessions
            /\ nextSid' = nextSid + 1
            /\ adminS' = adminS \cup {nextSid}
            /\ IF how = "keyspace_fail"
               THEN /\ failAt = 0
                    /\ adapter' = "none"
                    /\ openS' = openS \cup {nextSid}
                    /\ ret' = [NoRet EXCEPT !.op = "construct", !.kind = "raise",
                                            !.error = Err("InvalidRequest", 0),
                                            !.failure = Err("InvalidRequest", 0)]
                    /\ UNCHANGED backend
               ELSE LET sts == ProvisioningStatements(drop_old)
                        d == RunProvisioning(sts, 1, failAt, Db(tables, indexes, rows))
                    IN /\ failAt \in 0..Len(sts)
                       /\ tables' = d.tables
                       /\ indexes' = d.indexes
                       /\ rows' = d.rows
                       /\ IF d.err = NoError
                          THEN /\ adapter' = "ready"
                               /\ openS' = openS
                               /\ ret' = [NoRet EXCEPT !.op = "construct",
                                                       !.kind = "return",
                                                       !.flag = drop_old,
                                                       !.existed = (table \in tables),
                                                       !.issued = d.issued,
                                                       !.hadRows = rows]
                          ELSE /\ adapter' = "none"
                               /\ openS' = openS \cup {nextSid}
                               /\ ret' = [NoRet EXCEPT !.op = "construct",
                                                       !.kind = "raise",
                                                       !.error = d.err,
                                                       !.failure = d.err,
                                                       !.flag = drop_old,
                                                       !.existed = (table \in tables),
                                                       !.issued = d.issued,
                                                       !.hadRows = rows]
    /\ session' = 0
    /\ _insert' = 0
    /\ _select' = 0
    /\ UNCHANGED <<scopes, exitedS, nested>>

(* ------------------------------ init() --------------------------------- *)
\* Session.shutdown() of session s: idempotent, s = 0 never happens here
\* (the finally block runs only after self.session was assigned).
\* a release that is skipped
shutdown_skipped(open, s) == open
shutdown(open, s) == open \ {s}

\* a connection that is not established
connect_closed(open, s) == open
\* cluster.connect() returned session s: it is connected.
connect(open, s) == open \cup {s}

\* Entering `with self.init():`.  how is what the environment lets happen:
\*   "connect_fail"  cluster.connect() raises: nothing was assigned, the
\*                   try block is not entered;
\*   "keyspace_fail", "insert_fail", "select_fail"
\*                   set_keyspace / the first / the second prepare raises:
\*                   the finally block shuts self.session down and the
\*                   error leaves init();
\*   "ok"            the generator reaches yield: the scope body starts.
\* the two statements prepared a second time
Preparations_repeated(how) == <<"insert", "select", "insert", "select">>
\* The session.prepare calls of one entry (lines 80-81): none when
\* set_keyspace raised, the second only when the first returned.
Preparations(how) ==
    CASE how \in {"connect_fail", "keyspace_fail"} -> <<>>
      [] how = "insert_fail" -> <<"insert">>
      [] how \in {"select_fail", "ok"} -> <<"insert", "select">>

\* a statement prepared by an earlier entry that is kept
prepare_once(sid, old) == IF old # 0 THEN old ELSE sid
\* self.session.prepare(...) on session sid: a statement of that session,
\* whatever the attribute held before (old).
prepare(sid, old) == sid

ScopeEnter(how) ==
    /\ adapter = "ready"
    /\ ret = NoRet
    /\ IF how = "connect_fail"
       THEN /\ ret' = [NoRet EXCEPT !.op = "enter", !.kind = "raise",
                                    !.error = Err("NoHostAvailable", 0),
                                    !.failure = Err("NoHostAvailable", 0),
                                    !.connects = 1]
            /\ UNCHANGED <<openS, nextSid, fields, scopes, exitedS, nested>>
       ELSE /\ nextSid <= MaxSessions
            /\ nextSid' = nextSid + 1
            /\ nested' = (nested \/ scopes # <<>>)
            /\ session' = nextSid
            /\ _insert' = (IF how \in {"select_fail", "ok"}
                           THEN prepare(nextSid, _insert) ELSE _insert)
            /\ _select' = (IF how = "ok" THEN prepare(nextSid, _select) ELSE _select)
            /\ IF how = "ok"
               THEN /\ openS' = connect(openS, nextSid)
                    /\ scopes' = Append(scopes, nextSid)
                    /\ exitedS' = exitedS
                    /\ ret' = [NoRet EXCEPT !.op = "enter", !.kind = "return",
                                            !.connects = 1,
                                            !.prepares = Preparations(how)]
               ELSE /\ openS' = shutdown(connect(openS, nextSid), nextSid)
                    /\ scopes' = scopes
                    /\ exitedS' = exitedS \cup {nextSid}
                    /\ ret' = [NoRet EXCEPT !.op = "enter", !.kind = "raise",
                                            !.error = Err("InvalidRequest", 0),
                                            !.failure = Err("InvalidRequest", 0),
                                            !.connects = 1,
                                            !.prepares = Preparations(how)]
    /\ UNCHANGED <<backend, adminS, adapter>>

\* Leaving the innermost scope: the body finished (how = "return") or raised
\* (how = "raise").  Either way the generator resumes in its finally block,
\* which shuts down whatever self.session is at that moment.
ScopeExit(how) ==
    /\ scopes # <<>>
    /\ ret = NoRet
    /\ scopes' = SubSeq(scopes, 1, Len(scopes) - 1)
    /\ exitedS' = exitedS \cup {scopes[Len(scopes)]}
    /\ openS' = shutdown(openS, session)
    /\ ret' = [NoRet EXCEPT !.op = "exit", !.kind = how]
    /\ UNCHANGED <<backend, adminS, nextSid, adapter, fields, nested>>

(* --------------------- driver: execute_concurrent ---------------------- *)
\* Python values the driver looks into: a prepared statement, a 2-tuple, a
\* vector (list of floats).  a and b are the items of a tuple.
Prepared(name, sid) == [tag |-> "prepared", a |-> name, b |-> sid]
Tuple(x, y) == [tag |-> "tuple", a |-> x, b |-> y]
Vector(v) == [tag |-> "vector", a |-> v, b |-> 0]

\* One entry of _results_queue: (idx, ExecutionResult(success, result_or_exc)).
\* rows is the result set of a successful execution.
Result(idx, err, rs) == [idx |-> idx, success |-> (err = NoError), err |-> err, rows |-> rs]

\* _ConcurrentExecutor after __init__ and the resets of execute():
\*   elems      statements_and_parameters, enumerated
\*   next       _exec_count: elements taken so far
\*   queue      _results_queue, in completion order (_current is its length)
\*   inflight   requests sent to the backend whose callback has not run
\*   exception  _exception, set by a failure under fail_fast
\*   raised     an exception that left _execute_next itself
\*   submitted, accepted   what the backend received and what it stored
\*   peak, sent            the largest size inflight had, and the idx of the
\*                         elements handed to execute_async, in that order
Executor(elems, fail_fast) ==
    [elems |-> elems, fail_fast |-> fail_fast, next |-> 0, queue |-> <<>>,
     inflight |-> {}, exception |-> NoError, raised |-> NoError,
     submitted |-> 0, accepted |-> {}, peak |-> 0, sent |-> <<>>]

\* _execute_next / _execute and _put_result call each other: a request that
\* fails inside execute_async puts its result at once, which takes the next
\* element.  open: the session is connected.
\*   (idx, (statement, params)) = next(...) raises TypeError when the element
\*   is no 2-tuple; execute_async fails when the statement is no statement or
\*   the session is shut down (no host to send to); otherwise the request is
\*   sent.
RECURSIVE execute_next(_, _), put_result(_, _, _), dispatch(_, _, _, _)
execute_next(ex, open) ==
    IF ex.raised # NoError \/ ex.next >= Len(ex.elems) THEN ex
    ELSE dispatch(ex, ex.next + 1, ex.elems[ex.next + 1], open)

\* element e, the idx-th, is unpacked and handed to session.execute_async
dispatch(ex, idx, e, open) ==
    IF e.tag # "tuple"
    THEN [ex EXCEPT !.raised = Err("TypeError", idx)]
    ELSE IF e.a.tag # "prepared"
    THEN put_result([ex EXCEPT !.next = idx, !.sent = Append(@, idx)],
                    Result(idx, Err("InvalidStatement", idx), <<>>), open)
    ELSE IF ~open
    THEN put_result([ex EXCEPT !.next = idx, !.sent = Append(@, idx)],
                    Result(idx, Err("NoHostAvailable", idx), <<>>), open)
    ELSE [ex EXCEPT !.next = idx, !.inflight = @ \cup {idx}, !.submitted = @ + 1,
                    !.sent = Append(@, idx),
                    !.peak = IF Cardinality(ex.inflight) + 1 > @
                             THEN Cardinality(ex.inflight) + 1 ELSE @]

put_result(ex, res, open) ==
    IF ~res.success /\ ex.fail_fast
    THEN [ex EXCEPT !.queue = Append(@, res), !.inflight = @ \ {res.idx},
                    !.exception = IF @ = NoError THEN res.err ELSE @]
    ELSE execute_next([ex EXCEPT !.queue = Append(@, res),
                                 !.inflight = @ \ {res.idx}], open)

\* every element sent at once, whatever the width
RECURSIVE execute_unbounded(_, _, _)
execute_unbounded(ex, conc, open) ==
    IF ex.raised # NoError \/ ex.next >= Len(ex.elems) THEN ex
    ELSE execute_unbounded(execute_next(ex, open), conc, open)

\* execute(): `for n in range(concurrency): if not self._execute_next(): break`
RECURSIVE execute(_, _, _)
execute(ex, conc, open) ==
    IF conc = 0 \/ ex.raised # NoError \/ ex.next >= Len(ex.elems) THEN ex
    ELSE execute(execute_next(ex, open), conc - 1, open)

\* What the backend does with request idx, as the environment chose it:
\*   "ok"               stored / answered, the callback reports success
\*   "failed"           rejected by the backend: nothing is stored
\*   "timeout_lost"     the request timed out and was not applied
\*   "timeout_applied"  the request timed out at the client, the backend
\*                      applied the write all the same
Outcomes == {"ok", "failed", "timeout_lost", "timeout_applied"}

Completion(idx, o, answer) ==
    CASE o = "ok" -> Result(idx, NoError, answer)
      [] o = "failed" -> Result(idx, Err("Rejected", idx), <<>>)
      [] o \in {"timeout_lost", "timeout_applied"} ->
           Result(idx, Err("Timeout", idx), <<>>)

\* _results() of the list executor waits `while _current < _exec_count`,
\* and raises as soon as fail_fast has an exception.  done: nothing is left
\* to wait for.
Waiting(ex) == Len(ex.queue) < ex.next

\* The callbacks run while _results() waits.  order is the order in which
\* the backend completes requests: of those in flight, the one that comes
\* first in order completes next.
\* The request the backend completes next.
NextDone(inflight, order) ==
    order[CHOOSE j \in 1..Len(order) :
             /\ order[j] \in inflight
             /\ \A i \in 1..(j - 1) : order[i] \notin inflight]

\* The backend completes request idx with outcome o; its callback runs.
complete(ex, idx, o, answer, open) ==
    put_result([ex EXCEPT !.accepted = IF o \in {"ok", "timeout_applied"}
                                       THEN @ \cup {idx} ELSE @],
               Completion(idx, o, answer), open)

RECURSIVE RunAll(_, _, _, _, _), RunNext(_, _, _, _, _, _)
RunAll(ex, order, outcome, answer, open) ==
    IF ex.raised # NoError THEN ex
    ELSE IF ex.fail_fast /\ ex.exception # NoError THEN ex
    ELSE IF ~Waiting(ex) THEN ex
    ELSE RunNext(ex, NextDone(ex.inflight, order), order, outcome, answer, open)

RunNext(ex, idx, order, outcome, answer, open) ==
    RunAll(complete(ex, idx, outcome[idx], answer, open), order, outcome, answer, open)

\* the results left in completion order
unsorted(q) == q
\* sorted(self._results_queue): by idx
Least(q) == CHOOSE j \in 1..Len(q) : \A i \in 1..Len(q) : q[j].idx <= q[i].idx
RECURSIVE sorted(_), sortedFrom(_, _)
sorted(q) == IF q = <<>> THEN <<>> ELSE sortedFrom(q, Least(q))
sortedFrom(q, j) ==
    <<q[j]>> \o sorted(SubSeq(q, 1, j - 1) \o SubSeq(q, j + 1, Len(q)))

\* _results(): `return [r[1] for r in sorted(self._results_queue)]`
results_of(ex) == sorted(ex.queue)

\* execute_concurrent(session, statements_and_parameters, concurrency,
\* raise_on_first_error): the executor when the call ends.  An empty
\* argument returns [] at once.
execute_concurrent(elems, conc, raise_on_first_error, order, outcome, answer, open) ==
    IF elems = <<>> THEN Executor(elems, raise_on_first_error)
    ELSE RunAll(execute(Executor(elems, raise_on_first_error), conc, open),
                order, outcome, answer, open)

\* execute_concurrent_with_args: zip(cycle((statement,)), parameters)
with_args(statement, parameters) ==
    [i \in 1..Len(parameters) |-> Tuple(statement, parameters[i])]

(* ------------------------- insert_embeddings --------------------------- *)
\* raise_on_first_error of the two calls (lines 97 and 116)
raise_on_first_error_set == TRUE
insert_raise_on_first_error == FALSE
search_raise_on_first_error == TRUE

\* The batches drawn: identifiers 1..n, vectors 1..m.
Metadata(n) == [i \in 1..n |-> i]
Embeddings(m) == [i \in 1..m |-> i]

\* The orders in which n requests may complete.
Orders(n) == {o \in [1..n -> 1..n] : \A i, j \in 1..n : o[i] = o[j] => i = j}
InOrder(n) == [i \in 1..n |-> i]

\* params = [(metadata[i], embeddings[i]) for i in range(len(metadata))]
\* ok = FALSE: embeddings[i] raised IndexError.
InsertParams(embeddings, metadata) ==
    IF Len(embeddings) < Len(metadata)
    THEN [ok |-> FALSE, params |-> <<>>]
    ELSE [ok |-> TRUE,
          params |-> [i \in 1..Len(metadata) |-> Tuple(metadata[i], embeddings[i])]]

\* the count taken over all results when some failed
InsertPair_allCounted(results, successful_results, failed_results) ==
    IF Len(successful_results) = Len(results)
    THEN [count |-> Len(successful_results), error |-> NoError]
    ELSE [count |-> Len(results), error |-> failed_results[1].err]

\* Lines 98-105: the pair returned for the collected results.
InsertPair(results, successful_results, failed_results) ==
    IF Len(successful_results) = Len(results)
    THEN [count |-> Len(successful_results), error |-> NoError]
    ELSE [count |-> Len(successful_results), error |-> failed_results[1].err]

\* the filter reading the result set instead of the success flag
InsertOutcome_byResult(results) ==
    InsertPair(results, SelectSeq(results, LAMBDA r : r.rows # <<>>),
               SelectSeq(results, LAMBDA r : r.rows = <<>>))

InsertOutcome(results) ==
    InsertPair(results, SelectSeq(results, LAMBDA r : r.success),
               SelectSeq(results, LAMBDA r : ~r.success))

\* The error of the failed entry of q with the lowest idx (NoError: none).
LowestOf(q, F) ==
    IF F = {} THEN NoError
    ELSE q[CHOOSE j \in F : \A i \in F : q[j].idx <= q[i].idx].err

LowestFailure(q) == LowestOf(q, {i \in 1..Len(q) : ~q[i].success})

\* What the executor at its end ex tells of the call.
InsertTrace(base, ex) ==
    [base EXCEPT !.submitted = ex.submitted,
                 !.accepted = Cardinality(ex.accepted),
                 !.dispatched = ex.next,
                 !.collected = Len(ex.queue),
                 !.inflight = Cardinality(ex.inflight),
                 !.peak = ex.peak,
                 !.sent = ex.sent,
                 !.failed = Len(SelectSeq(ex.queue, LAMBDA r : ~r.success)),
                 !.timedOut = Len(SelectSeq(ex.queue, LAMBDA r : r.err.type = "Timeout")),
                 !.failure = LowestFailure(ex.queue),
                 !.outOfOrder = (ex.queue # sorted(ex.queue))]

\* What a call that ran the executor to its end ex leaves behind: the rows
\* the backend stored, and the outcome: an exception that leaves
\* execute_concurrent_with_args leaves insert_embeddings, otherwise the pair
\* out is returned.
InsertEnd(base, ex, out) ==
    [rows |-> {ex.elems[i].b.a : i \in ex.accepted},
     ret |-> IF ex.raised # NoError
             THEN [InsertTrace(base, ex) EXCEPT !.kind = "raise", !.error = ex.raised]
             ELSE IF ex.fail_fast /\ ex.exception # NoError
             THEN [InsertTrace(base, ex) EXCEPT !.kind = "raise", !.error = ex.exception]
             ELSE [InsertTrace(base, ex) EXCEPT !.kind = "return", !.count = out.count,
                                                !.error = out.error]]

InsertRun(base, ex) == InsertEnd(base, ex, InsertOutcome(results_of(ex)))

InsertRaise(base, e) ==
    [rows |-> {}, ret |-> [base EXCEPT !.kind = "raise", !.error = e, !.failure = e]]

\* The call from line 96 on, for params p (see InsertParams).
InsertBody(base, p, order, outcome, open) ==
    IF ~p.ok THEN InsertRaise(base, Err("IndexError", 0))
    ELSE IF session = 0 \/ _insert = 0 THEN InsertRaise(base, Err("AttributeError", 0))
    ELSE InsertRun(base,
                   execute_concurrent(with_args(Prepared("insert", _insert), p.params),
                                      concurrency, insert_raise_on_first_error,
                                      order, outcome, <<>>, open))

InsertApply(r) ==
    /\ rows' = rows \cup r.rows
    /\ ret' = r.ret

\* insert_embeddings(embeddings, metadata).  order and outcome are the
\* environment's part: the order in which the backend completes the
\* requests and what it does with each.
insert_embeddings(embeddings, metadata, order, outcome) ==
    /\ adapter = "ready"
    /\ ret = NoRet
    /\ InsertApply(InsertBody([NoRet EXCEPT !.op = "insert", !.n = Len(metadata),
                                            !.m = Len(embeddings),
                                            !.inScope = (scopes # <<>>)],
                              InsertParams(embeddings, metadata),
                              order, outcome, session \in openS))
    /\ UNCHANGED <<tables, indexes, openS, adminS, nextSid, adapter, fields,
                   scopes, exitedS, nested>>

(* ------------------------- search_embedding ---------------------------- *)
\* The second argument of execute_concurrent at line 116:
\* (self._select, (query, k)), a tuple of two items, the prepared statement
\* and the pair of its parameters.
SearchStatements(sel, query, k) ==
    <<Prepared("select", sel), Tuple(Vector(query), k)>>

\* [row.id for result in successful_results for row in result[1]]
RECURSIVE row_ids(_)
row_ids(results) ==
    IF results = <<>> THEN <<>>
    ELSE (IF Head(results).success THEN Head(results).rows ELSE <<>>)
         \o row_ids(Tail(results))

\* a failure turned into an empty list
SearchEnd_swallowed(base, ex) ==
    IF ex.raised # NoError \/ ex.exception # NoError
    THEN [base EXCEPT !.kind = "return", !.ids = <<>>,
                      !.failure = IF ex.raised # NoError THEN ex.raised ELSE ex.exception,
                      !.submitted = ex.submitted]
    ELSE [base EXCEPT !.kind = "return", !.ids = row_ids(results_of(ex)),
                      !.failure = LowestFailure(ex.queue),
                      !.submitted = ex.submitted]

\* Lines 116-118 for the executor at its end: an exception that left
\* execute_concurrent leaves search_embedding; otherwise the ids are returned.
SearchEnd(base, ex) ==
    IF ex.raised # NoError
    THEN [base EXCEPT !.kind = "raise", !.error = ex.raised, !.failure = ex.raised,
                      !.submitted = ex.submitted]
    ELSE IF ex.fail_fast /\ ex.exception # NoError
    THEN [base EXCEPT !.kind = "raise", !.error = ex.exception,
                      !.failure = ex.exception, !.submitted = ex.submitted]
    ELSE [base EXCEPT !.kind = "return", !.ids = row_ids(results_of(ex)),
                      !.failure = LowestFailure(ex.queue),
                      !.submitted = ex.submitted]

SearchBody(base, query, k, outcome, answer, open) ==
    IF session = 0 \/ _select = 0
    THEN [base EXCEPT !.kind = "raise", !.error = Err("AttributeError", 0),
                      !.failure = Err("AttributeError", 0)]
    ELSE SearchEnd([base EXCEPT !.handed = SearchStatements(_select, query, k)],
                   execute_concurrent(SearchStatements(_select, query, k), concurrency,
                                      search_raise_on_first_error, InOrder(2),
                                      [i \in 1..2 |-> outcome], answer, open))

\* The answers the backend may give to a query with row limit k: at most k
\* of the stored rows, each once, in the order of its ranking.
Answers(k) ==
    UNION {{a \in [1..l -> rows] : \A i, j \in 1..l : a[i] = a[j] => i = j} :
           l \in 0..k}

\* search_embedding(query, k, filters).  outcome ("ok" or "failed") and
\* answer are the environment's part: whether the backend is able to
\* execute the query, and the rows it ranks for it.
\* a row limit that depends on the filter
Limit_filtered(k, filters) == IF filters = "none" THEN k ELSE 0
\* The row limit bound to the statement: k.  filters is accepted and never
\* read (line 113: filtering search not supported yet).
Limit(k, filters) == k

\* How the call ends in the current state.
SearchCall(query, k, filters, outcome, answer) ==
    SearchBody([NoRet EXCEPT !.op = "search", !.n = k,
                             !.inScope = (scopes # <<>>),
                             !.envOk = (outcome = "ok"),
                             !.answer = answer,
                             !.filters = filters],
               query, Limit(k, filters), outcome, answer, session \in openS)

search_embedding(query, k, filters, outcome, answer) ==
    /\ adapter = "ready"
    /\ ret = NoRet
    /\ ret' = SearchCall(query, k, filters, outcome, answer)
    /\ UNCHANGED <<backend, openS, adminS, nextSid, adapter, fields, scopes,
                   exitedS, nested>>

(* -------------------- optimize, ready_to_load -------------------------- *)
\* a body that empties the table
pass_truncating ==
    /\ rows' = {}
    /\ UNCHANGED <<tables, indexes, openS, adminS, nextSid, adapter, fields,
                   scopes, exitedS, nested>>
\* The body of both methods is `pass`: nothing is read, nothing is written.
pass ==
    UNCHANGED <<backend, openS, adminS, nextSid, adapter, fields, scopes,
                exitedS, nested>>

optimize ==
    /\ adapter = "ready"
    /\ ret = NoRet
    /\ pass
    /\ ret' = [NoRet EXCEPT !.op = "optimize", !.kind = "return",
                            !.inScope = (scopes # <<>>)]

ready_to_load ==
    /\ adapter = "ready"
    /\ ret = NoRet
    /\ pass
    /\ ret' = [NoRet EXCEPT !.op = "ready_to_load", !.kind = "return",
                            !.inScope = (scopes # <<>>)]

(* ---------------------------- environment ------------------------------ *)
\* A call of n rows and m vectors sends requests to the backend only when
\* the session is connected; otherwise the environment has no part in it.
Reaches(n, m) == m >= n /\ session \in openS /\ _insert # 0

EnvOrders(n, m) == IF Reaches(n, m) THEN Orders(n) ELSE {InOrder(n)}
EnvOutcomes(n, m) ==
    IF Reaches(n, m) THEN [1..n -> Outcomes] ELSE {[i \in 1..n |-> "ok"]}

(* ------------------------------ caller --------------------------------- *)
\* The harness is one thread: it makes a call, takes what the call returned
\* or raised, and only then makes the next one.
Continue ==
    /\ ret # NoRet
    /\ ret' = NoRet
    /\ UNCHANGED <<backend, openS, adminS, nextSid, adapter, fields, scopes,
                   exitedS, nested>>

(* ------------------------------ spec ----------------------------------- *)
\* No adapter has been constructed.  The keyspace may hold the collection
\* from an earlier run: the table, with or without its index.
Init ==
    /\ tables \in {{}, {table}}
    /\ indexes \in (IF tables = {} THEN {{}} ELSE {{}, {table_index}})
    /\ rows = {}
    /\ openS = {}
    /\ adminS = {}
    /\ nextSid = 1
    /\ adapter = "none"
    /\ session = 0
    /\ _insert = 0
    /\ _select = 0
    /\ scopes = <<>>
    /\ exitedS = {}
    /\ nested = FALSE
    /\ ret = NoRet

\* A call of insert_embeddings, of search_embedding, with what the
\* environment does during it.
Insert ==
    /\ ret = NoRet
    /\ \E n \in 0..MaxBatch, m \in 0..MaxBatch :
          \E order \in EnvOrders(n, m), outcome \in EnvOutcomes(n, m) :
             insert_embeddings(Embeddings(m), Metadata(n), order, outcome)

Search ==
    /\ ret = NoRet
    /\ \E k \in 1..MaxK, filters \in {"none", "some"}, outcome \in {"ok", "failed"} :
          \E answer \in Answers(k) :
             search_embedding(1, k, filters, outcome, answer)

\* The calls of __init__ and of init(), with what the environment does.
Provision ==
    \E drop_old \in BOOLEAN, how \in {"connect_fail", "keyspace_fail", "run"},
       failAt \in 0..Len(ProvisioningStatements(TRUE)) :
       Construct(drop_old, how, failAt)

Enter ==
    \E how \in {"connect_fail", "keyspace_fail", "insert_fail", "select_fail", "ok"} :
       ScopeEnter(how)

Exit == \E how \in {"return", "raise"} : ScopeExit(how)

Next ==
    \/ Provision
    \/ Enter
    \/ Exit
    \/ Insert
    \/ Search
    \/ optimize
    \/ ready_to_load
    \/ Continue

Spec == Init /\ [][Next]_vars

\* Batches wider than the concurrency width: one row more than the
\* executor sends at once, so that the last row is dispatched only when a
\* request has completed.  The backend completes the requests in dispatch
\* order or latest first, and fails the rows of one of the sets WideFailing.
WideBatch == concurrency + 1
Reversed(n) == [i \in 1..n |-> n + 1 - i]
WideOrders == {InOrder(WideBatch), Reversed(WideBatch)}
WideFailing == {{}, {1}, {WideBatch}, {1, WideBatch}}

WideInsert ==
    /\ ret = NoRet
    /\ \E order \in (IF Reaches(WideBatch, WideBatch)
                     THEN WideOrders ELSE {InOrder(WideBatch)}),
          F \in (IF Reaches(WideBatch, WideBatch) THEN WideFailing ELSE {{}}) :
          insert_embeddings(Embeddings(WideBatch), Metadata(WideBatch), order,
                            [i \in 1..WideBatch |-> IF i \in F THEN "failed" ELSE "ok"])

NextWide ==
    \/ Provision
    \/ Enter
    \/ Exit
    \/ Insert
    \/ WideInsert
    \/ Continue

SpecWide == Init /\ [][NextWide]_vars

(* ---------------------------- properties ------------------------------- *)
InsertReturned == ret.op = "insert" /\ ret.kind = "return"

\* C1, as stated: after any sequence of scope entries and exits, no session
\* opened by a scope entry is still open once its scope has been left.
C1_NoSessionOutlivesItsScope == exitedS \cap openS = {}

\* C1, amended: as long as init() is never entered while another scope of
\* the instance is active, no session opened by a scope entry is still open
\* once its scope has been left (body returned, body raised, or entry failed
\* after the connection was opened).
C1_NoSessionOutlivesItsScopeUnnested ==
    ~nested => exitedS \cap openS = {}

C1_Witness ==
    /\ ~nested
    /\ ret.op = "exit"
    /\ ret.kind = "raise"
    /\ exitedS # {}
    /\ scopes = <<>>

\* C2: a batch of N rows whose executions all succeed returns (N, None),
\* in whatever order the requests completed.
C2_AllSucceedReturnsN ==
    (InsertReturned /\ ret.failed = 0 /\ ret.collected = ret.n)
        => (ret.count = ret.n /\ ret.error = NoError)

C2_Witness ==
    /\ InsertReturned
    /\ ret.n >= 2
    /\ ret.failed = 0
    /\ ret.outOfOrder
    /\ ret.count = ret.n

\* C3, as stated: a batch with a failed row returns (successCount, error)
\* with an error, successCount < N, and successCount equal to the number of
\* rows of the batch the backend stored.
C3_CountIsWhatBackendStored ==
    (InsertReturned /\ ret.failed >= 1)
        => (ret.error # NoError /\ ret.count < ret.n /\ ret.count = ret.accepted)

\* C3, amended: a batch with a failed row returns (successCount, error) with
\* an error and successCount < N; successCount is the number of rows whose
\* execution reported success, the backend stored at least those rows and
\* at most those and the rows that timed out.
C3_CountIsReportedSuccesses ==
    (InsertReturned /\ ret.failed >= 1)
        => /\ ret.error # NoError
           /\ ret.count < ret.n
           /\ ret.count = ret.n - ret.failed
           /\ ret.count <= ret.accepted
           /\ ret.accepted <= ret.count + ret.timedOut

C3_Witness ==
    /\ InsertReturned
    /\ ret.failed >= 1
    /\ ret.count >= 1
    /\ ret.accepted > ret.count

\* C4: when rows of a batch fail, the error returned is the error of the
\* failed row with the lowest batch position, whatever the completion order.
C4_FirstErrorIsLowestPosition ==
    (InsertReturned /\ ret.failed >= 1) => ret.error = ret.failure

C4_Witness ==
    /\ InsertReturned
    /\ ret.failed >= 2
    /\ ret.outOfOrder
    /\ ret.error.row = 1

\* C5: a call that got to execute its batch returns, and when it does every
\* row has been dispatched, every outcome is collected and no request is in
\* flight, whichever rows failed.
C5_NoShortCircuit ==
    (ret.op = "insert" /\ ret.failure.type \notin {"IndexError", "AttributeError"})
        => /\ ret.kind = "return"
           /\ ret.dispatched = ret.n
           /\ ret.collected = ret.n
           /\ ret.inflight = 0

\* the first row of a batch wider than the concurrency width fails while
\* the last row is not dispatched yet
C5_Witness ==
    /\ InsertReturned
    /\ ret.n > concurrency
    /\ ret.submitted = ret.n
    /\ ~ret.outOfOrder
    /\ ret.failure.row = 1
    /\ ret.failed = 2
    /\ ret.collected = ret.n

\* C6: a search_embedding call in which something failed ends by raising
\* that error; it returns no list, empty or partial.
C6_SearchFailurePropagates ==
    (ret.op = "search" /\ ret.failure # NoError)
        => (ret.kind = "raise" /\ ret.error = ret.failure /\ ret.ids = <<>>)

C6_Witness ==
    /\ ret.op = "search"
    /\ ret.inScope
    /\ session \in openS
    /\ ret.kind = "raise"
    /\ ret.failure # NoError

\* C7: a search made inside a scope, on a connected session, that the
\* backend is able to answer, returns exactly the ids of the rows of the
\* backend's answer, in the backend's order.
C7_SearchReturnsBackendIds ==
    (ret.op = "search" /\ ret.inScope /\ session \in openS /\ ret.envOk)
        => (ret.kind = "return" /\ ret.ids = ret.answer)

\* C8: no construction ends with a duplicate-object or missing-object
\* error, and when a construction returns the backend holds exactly one
\* table and exactly one index, whatever drop_old was and whether or not the
\* collection was provisioned before.
C8_ProvisioningIdempotent ==
    ret.op = "construct"
        => /\ ret.error.type \notin {"AlreadyExists", "NotFound"}
           /\ ret.kind = "return"
                 => (tables = {table} /\ indexes = {table_index})

C8_Witness ==
    /\ ret.op = "construct"
    /\ ret.kind = "return"
    /\ ret.existed
    /\ Cardinality(adminS) >= 2
    /\ Cardinality(tables) = 1
    /\ Cardinality(indexes) = 1

\* C9: an insert_embeddings or search_embedding call made while no scope is
\* active raises before any statement reaches the backend.
C9_CallOutsideScopeRaises ==
    (ret.op \in {"insert", "search"} /\ ~ret.inScope)
        => (ret.kind = "raise" /\ ret.submitted = 0)

\* C10: insert_embeddings called with lists of different lengths raises.
C10_MismatchedLengthsRaise ==
    (ret.op = "insert" /\ ret.n # ret.m) => ret.kind = "raise"

\* C11: a construction in which a provisioning statement failed ends by
\* raising the error of that statement, the failed statement is the last
\* one it issued, and it leaves no adapter instance; a scope is entered or
\* left and insert/search are called only on an instance whose construction
\* returned.
ProvisioningFailed ==
    /\ ret.op = "construct"
    /\ ret.issued # <<>>
    /\ ret.failure # NoError

C11_FailedProvisioningAborts ==
    /\ ProvisioningFailed
          => /\ ret.kind = "raise"
             /\ ret.error = ret.failure
             /\ ret.failure.row = Len(ret.issued)
             /\ adapter = "none"
    /\ ret.op \in {"enter", "exit", "insert", "search"} => adapter = "ready"
    /\ adapter = "none" => scopes = <<>>

C11_Witness ==
    /\ ProvisioningFailed
    /\ ret.flag
    /\ ret.existed
    /\ ret.issued = <<"drop_table">>
    /\ table \in tables
    /\ adapter = "none"
    /\ Cardinality(adminS) >= 2

\* C12: whenever a construction has ended, by returning or by raising, no
\* administrative session is open; and self.session is never an
\* administrative session.
C12_AdminSessionClosed ==
    /\ ret.op = "construct" => adminS \cap openS = {}
    /\ session \notin adminS

\* C13: as long as init() is never entered while another scope of the
\* instance is active, the sessions opened by init() that are connected are
\* exactly one, self.session, while a scope body runs, and none outside a
\* scope.
DataSessions == openS \ adminS

C13_OneDataSession ==
    ~nested => IF scopes # <<>>
               THEN /\ DataSessions = {session}
                    /\ scopes = <<session>>
               ELSE DataSessions = {}

\* a call inside the second scope of the instance
C13_Witness ==
    /\ ~nested
    /\ exitedS # {}
    /\ scopes # <<>>
    /\ InsertReturned
    /\ ret.count >= 1
    /\ Cardinality(DataSessions) = 1

\* C14: a scope entry that reaches the body has called cluster.connect()
\* once, which opened one session, and session.prepare once for the insert
\* and once for the select statement, both on that session; a call of
\* insert_embeddings or search_embedding connects nothing, prepares nothing
\* and leaves the sessions and the prepared statements as they were.
C14_Step ==
    /\ (ret'.op = "enter" /\ ret'.kind = "return")
          => /\ ret'.connects = 1
             /\ nextSid' = nextSid + 1
             /\ openS' = openS \cup {nextSid}
             /\ ret'.prepares = <<"insert", "select">>
             /\ session' = nextSid
             /\ _insert' = nextSid
             /\ _select' = nextSid
    /\ ret'.op \in {"insert", "search"}
          => /\ ret'.connects = 0
             /\ ret'.prepares = <<>>
             /\ nextSid' = nextSid
             /\ openS' = openS
             /\ UNCHANGED fields

C14_OncePerEntry == [][C14_Step]_vars

\* a second insert_embeddings call inside the first scope of the instance
C14_Witness ==
    /\ scopes # <<>>
    /\ Cardinality(adminS) = 1
    /\ nextSid = 3
    /\ InsertReturned
    /\ ret.n = 1
    /\ ret.count = 1
    /\ rows = {1, 2}

\* C15: a call of optimize() or of ready_to_load(), inside or outside a
\* scope, returns, submits no statement, and leaves the adapter's session,
\* prepared statements and sessions and the backend's tables, indexes and
\* rows as they were.
C15_Step ==
    ret'.op \in {"optimize", "ready_to_load"}
        => /\ ret'.kind = "return"
           /\ ret'.error = NoError
           /\ ret'.submitted = 0
           /\ UNCHANGED <<fields, adapter, scopes>>
           /\ UNCHANGED <<openS, adminS, nextSid>>
           /\ UNCHANGED backend

C15_NoOps == [][C15_Step]_vars

C15_Witness ==
    /\ ret.op = "optimize"
    /\ ret.inScope
    /\ session \in openS
    /\ rows # {}

\* C16: a search_embedding call ends exactly as the call with the same
\* query and k and no filter ends in the same state of the adapter and of
\* the backend: the same items handed to execute_concurrent, the same
\* statements submitted, the same list returned or the same error raised.
Unfiltered ==
    SearchCall(1, ret.n, "none", IF ret.envOk THEN "ok" ELSE "failed", ret.answer)

C16_FiltersIgnored ==
    ret.op = "search" => ret = [Unfiltered EXCEPT !.filters = ret.filters]

C16_Witness ==
    /\ ret.op = "search"
    /\ ret.filters = "some"
    /\ ret.inScope
    /\ session \in openS
    /\ ret.handed # <<>>
    /\ rows # {}

\* C17: in an insert_embeddings call, of whatever batch size, the requests
\* of the call in flight at one moment were never more than 16, and the
\* rows were handed to the driver in batch order: the first, the second,
\* and so on up to the last one dispatched.
C17_BoundedInFlight ==
    ret.op = "insert"
        => /\ ret.peak <= 16
           /\ ret.sent = InOrder(ret.dispatched)

\* a batch of more rows than the width, completed latest first
C17_Witness ==
    /\ InsertReturned
    /\ ret.n > 16
    /\ ret.peak = 16
    /\ ret.outOfOrder
    /\ ret.dispatched = ret.n
    /\ ret.sent = InOrder(ret.n)

\* C18: a construction that got to its provisioning statements issued a
\* drop statement if and only if drop_old was set.  With drop_old set, every
\* create statement it issued came after both drop statements, and no drop
\* failed for the absence of its object: unless the environment made a
\* statement fail, the construction returned.  With drop_old not set, a
\* table that existed is still there with the rows it held.
Drops == {"drop_table", "drop_index"}
Creates == {"create_table", "create_index"}
Provisioned == ret.op = "construct" /\ ret.issued # <<>>

C18_DropsIffDropOld ==
    Provisioned
        => /\ ret.flag <=> (\E j \in 1..Len(ret.issued) : ret.issued[j] \in Drops)
           /\ ret.flag
                 => /\ \A j \in 1..Len(ret.issued) :
                          ret.issued[j] \in Creates
                              => /\ j > 2
                                 /\ ret.issued[1] = "drop_table"
                                 /\ ret.issued[2] = "drop_index"
                    /\ ret.failure.type # "Unavailable"
                          => (ret.kind = "return" /\ Len(ret.issued) = 4)
           /\ (~ret.flag /\ ret.existed)
                 => (table \in tables /\ rows = ret.hadRows)

\* both drops executed on a keyspace that held neither table nor index
C18_Witness ==
    /\ Provisioned
    /\ ret.kind = "return"
    /\ ret.flag
    /\ ~ret.existed
    /\ ret.issued = <<"drop_table", "drop_index", "create_table", "create_index">>

\* C19: a search_embedding(query, k) call made inside a scope on a connected
\* session hands execute_concurrent a sequence of exactly one element, the
\* pair of the prepared select statement and the parameters (query, k), and
\* submits exactly one statement execution.
C19_SearchSubmitsOnePair ==
    (ret.op = "search" /\ ret.inScope /\ session \in openS)
        => /\ ret.handed = <<Tuple(Prepared("select", _select),
                                   Tuple(Vector(1), ret.n))>>
           /\ ret.submitted = 1

\* C20: self.session, self._insert and self._select are written by a scope
\* entry (and start absent in a new instance) and by nothing else: no
\* insert_embeddings or search_embedding call, no optimize, ready_to_load or
\* scope exit changes them.  As long as scopes are not nested, while a scope
\* body runs they are the session opened and the two statements prepared by
\* the entry of that scope, never those of a scope already left.
C20_Step ==
    /\ fields' # fields => ret'.op \in {"enter", "construct"}
    /\ ret'.op \in {"insert", "search"} => UNCHANGED fields

C20_InScope ==
    (~nested /\ scopes # <<>>)
        => /\ session = scopes[Len(scopes)]
           /\ _insert = session
           /\ _select = session
           /\ session \notin exitedS

C20_SessionWrittenAtEntryOnly == [][C20_Step]_vars /\ []C20_InScope

\* a search inside a scope entered after another scope was left
C20_Witness ==
    /\ ~nested
    /\ ret.op = "search"
    /\ scopes = <<session>>
    /\ _select = session
    /\ exitedS # {}
    /\ \E s \in exitedS : s < session
====
